---- MODULE Spec2Model ----
(***************************************************************************)
(* State-machine model of                                                  *)
(*   src/TrackMate/3D_Nuclei_Segmentation_StarDist_TrackMate.py            *)
(*                                                                         *)
(* The script loops over the input files, and inside each file over the    *)
(* timepoints; it accumulates label slices in output_stack, reshapes the   *)
(* stack into a hyperstack and saves it.  The host calls (IJ.openImage,    *)
(* Duplicator, TrackMate, LabelImgExporter, HyperStackConverter,           *)
(* RGBStackMerge, IJ.save) are external: their results are inputs of the   *)
(* model, drawn with \E, and each of them may raise.  What the script      *)
(* does with each result is translated from the source.                    *)
(*                                                                         *)
(* Modelling decisions:                                                    *)
(*  - A slice is the record of what the script gave it: its name           *)
(*    "t{t}_z{z}{tag}", its size, its bit depth, and whether it was        *)
(*    created blank (IJ.createImage "Empty") or copied from a label image. *)
(*  - IJ.createImage/addSlice of a blank slice and ImagePlus.close() are   *)
(*    total (they do not raise); every other host call may raise.          *)
(*  - HyperStackConverter.toHyperStack raises when the stack size differs  *)
(*    from channels * slices * frames.                                     *)
(*  - open is the set of images created and not closed, by the name of     *)
(*    the script variable that holds them; leaked records that a name was  *)
(*    rebound while the image it held was still open.                      *)
(*  - saved holds the output of the file being handled; the output of      *)
(*    earlier files is never read or overwritten by the script (the        *)
(*    model's files have distinct names) and is not kept.                  *)
(***************************************************************************)
EXTENDS Integers, Sequences, FiniteSets, TLC

\* Bounds of the model.
MaxFiles == 2
MaxChannels == 2
MaxSlices == 2
MaxFrames == 2

\* Image sizes (width, height) the opened files may have.
Sizes == {<<1, 1>>, <<2, 1>>}

VARIABLES
    n_files,                \* len(input_files)
    target_channel,         \* script parameter
    append_to_original,     \* script parameter
    file_idx,               \* number of files the file loop has started
    pc,                     \* position of the script
    imp,                    \* the opened source image (its dimensions)
    output_stack,           \* ImageStack: sequence of slices
    successful_timepoints,
    t,                      \* timepoint loop variable
    label_imp_t,            \* label image exported for timepoint t
    z,                      \* slice-append loop variable
    label_imp,              \* label hyperstack
    open,                   \* images created and not closed
    leaked,                 \* a name was rebound while its image was open
    saved,                  \* images IJ.save has written for the current file
    attempted,              \* file indexes announced by "FILE i / n"
    result                  \* how the handling of the current file ended

vars == <<n_files, target_channel, append_to_original, file_idx, pc, imp,
          output_stack, successful_timepoints, t, label_imp_t, z, label_imp,
          open, leaked, saved, attempted, result>>

NoImage == [width |-> 0, height |-> 0, n_channels |-> 0, n_slices |-> 0, n_frames |-> 0]
NoLabelT == [frames |-> 0]
NoLabel == [channels |-> 0, slices |-> 0, frames |-> 0]

\* Images IJ.openImage can return.
Images ==
    { [width |-> s[1], height |-> s[2], n_channels |-> c, n_slices |-> zs, n_frames |-> f] :
        s \in Sizes, c \in 1..MaxChannels, zs \in 1..MaxSlices, f \in 1..MaxFrames }

\* Frame counts of the label image the exporter can return for an image of
\* ns slices (an ImagePlus holds at least one frame).
LabelFrames(ns) == 1..(ns + 1)

----------------------------------------------------------------------------
\* Pure helpers

\* line 62 with the bound "target_channel < 1" left out
ChannelInRange_NoLowerBound(tc, nc) == tc <= nc

\* line 62: not (target_channel < 1 or target_channel > n_channels)
ChannelInRange(tc, nc) == ~(tc < 1 \/ tc > nc)

\* range(1, n_slices): one slice short
EmptySlices_OneShort(tt, ns, w, h, tag) ==
    [zz \in 1..(ns - 1) |->
        [t |-> tt, z |-> zz + 1, tag |-> tag, width |-> w, height |-> h,
         bits |-> 16, blank |-> TRUE]]

\* lines 117-119, 126-128, 147-149, 171-173:
\* for z in range(n_slices): addSlice("t{}_z{}<tag>", IJ.createImage("Empty", w, h, 1, 16))
EmptySlices(tt, ns, w, h, tag) ==
    [zz \in 1..ns |->
        [t |-> tt, z |-> zz, tag |-> tag, width |-> w, height |-> h,
         bits |-> 16, blank |-> TRUE]]

\* lines 158-160: the duplicate of slice zz of the label image, named "t{}_z{}"
LabelSlice(tt, zz, w, h) ==
    [t |-> tt, z |-> zz, tag |-> "", width |-> w, height |-> h,
     bits |-> 16, blank |-> FALSE]

\* the label channel put first
MergeList_LabelFirst(nc) == <<0>> \o [c \in 1..nc |-> c]

\* lines 209 and 226-230: the images handed to RGBStackMerge, by channel of the
\* source (0 is the label image): [imp, label_imp] or [ch_1 .. ch_N, label_imp]
MergeList(nc) == [c \in 1..nc |-> c] \o <<0>>

\* the abort taken when no timepoint succeeded
EmptyStack_NoSuccess(stack, successful) == successful = 0

\* line 177: output_stack.getSize() == 0
EmptyStack(stack, successful) == Len(stack) = 0

\* the exception leaves the file loop
AfterFileException_Propagates == "done"

\* lines 260-263: the handler prints and the file loop goes on
AfterFileException == "files"

TimepointPcs == {"dup", "setup", "checkInput", "process", "export", "append"}

----------------------------------------------------------------------------
Init ==
    /\ n_files \in 0..MaxFiles
    /\ target_channel \in 0..(MaxChannels + 1)
    /\ append_to_original \in BOOLEAN
    /\ file_idx = 0
    /\ pc = "files"
    /\ imp = NoImage
    /\ output_stack = <<>>
    /\ successful_timepoints = 0
    /\ t = 0
    /\ label_imp_t = NoLabelT
    /\ z = 0
    /\ label_imp = NoLabel
    /\ open = {}
    /\ leaked = FALSE
    /\ saved = {}
    /\ attempted = <<>>
    /\ result = "none"

Params == <<n_files, target_channel, append_to_original>>

----------------------------------------------------------------------------
\* File loop

\* lines 38-59: next file of the loop; IJ.openImage returns an image, returns
\* None (line 47, continue) or raises (handler at 260).  The names of the
\* previous file are rebound before they are read again, so their values are
\* dropped here.
OpenImage ==
    /\ pc = "files"
    /\ file_idx < n_files
    /\ file_idx' = file_idx + 1
    /\ attempted' = Append(attempted, file_idx + 1)
    /\ leaked' = (leaked \/ open # {})
    /\ output_stack' = <<>>
    /\ successful_timepoints' = 0
    /\ t' = 0
    /\ z' = 0
    /\ label_imp_t' = NoLabelT
    /\ label_imp' = NoLabel
    /\ saved' = {}
    /\ \/ \E im \in Images :
            /\ imp' = im
            /\ open' = {"imp"}
            /\ pc' = "validate"
            /\ result' = "running"
       \/ /\ imp' = NoImage
          /\ open' = {}
          /\ pc' = "files"
          /\ result' = "open_failed"
       \/ /\ imp' = NoImage
          /\ open' = {}
          /\ pc' = AfterFileException
          /\ result' = "exception"
    /\ UNCHANGED Params

\* lines 61-73: channel validation, then the empty output stack
ValidateChannel ==
    /\ pc = "validate"
    /\ IF ChannelInRange(target_channel, imp.n_channels)
       THEN /\ output_stack' = <<>>
            /\ successful_timepoints' = 0
            /\ t' = 1
            /\ pc' = "dup"
            /\ UNCHANGED <<open, result>>
       ELSE /\ open' = open \ {"imp"}
            /\ pc' = "files"
            /\ result' = "channel_skip"
            /\ UNCHANGED <<output_stack, successful_timepoints, t>>
    /\ UNCHANGED <<Params, file_idx, imp, label_imp_t, z, label_imp, leaked,
                   saved, attempted>>

\* lines 265-267: "ALL FILES PROCESSED"
Finish ==
    /\ pc = "files"
    /\ file_idx = n_files
    /\ pc' = "done"
    /\ UNCHANGED <<Params, file_idx, imp, output_stack, successful_timepoints, t,
                   label_imp_t, z, label_imp, open, leaked, saved,
                   attempted, result>>

----------------------------------------------------------------------------
\* Timepoint loop (lines 76-173)

\* line 76: the next iteration of "for t in range(1, n_frames + 1)", or the
\* statement after the loop.  label_imp_t and z are rebound (lines 136, 157)
\* before they are read again, so their values are dropped here.
NextTimepoint ==
    /\ IF t < imp.n_frames
       THEN t' = t + 1 /\ pc' = "dup"
       ELSE t' = t /\ pc' = "after_loop"
    /\ label_imp_t' = NoLabelT
    /\ z' = 0

\* lines 168-173: except Exception: n_slices empty slices named "_error"
TimepointExcept ==
    /\ output_stack' =
          output_stack \o EmptySlices(t, imp.n_slices, imp.width, imp.height, "_error")
    /\ NextTimepoint
    /\ UNCHANGED <<open, leaked>>

\* lines 115-120, 124-129, 145-150: close imp_t, n_slices empty slices named
\* "_empty", continue
TimepointFallback ==
    /\ open' = open \ {"imp_t"}
    /\ output_stack' =
          output_stack \o EmptySlices(t, imp.n_slices, imp.width, imp.height, "_empty")
    /\ NextTimepoint
    /\ UNCHANGED leaked

TimepointFrame ==
    UNCHANGED <<Params, file_idx, imp, successful_timepoints, label_imp,
                saved, attempted, result>>

\* lines 81-84: Duplicator().run and setDimensions
Duplicate ==
    /\ pc = "dup"
    /\ \/ /\ open' = open \cup {"imp_t"}
          /\ leaked' = (leaked \/ "imp_t" \in open)
          /\ pc' = "setup"
          /\ UNCHANGED <<output_stack, t, label_imp_t, z>>
       \/ TimepointExcept
    /\ TimepointFrame

\* lines 87-111: Model, Settings, detector and tracker settings, TrackMate
SetupTrackMate ==
    /\ pc = "setup"
    /\ \/ /\ pc' = "checkInput"
          /\ UNCHANGED <<output_stack, t, open, leaked, label_imp_t, z>>
       \/ TimepointExcept
    /\ TimepointFrame

\* lines 113-120: trackmate.checkInput()
CheckInput ==
    /\ pc = "checkInput"
    /\ \/ /\ pc' = "process"
          /\ UNCHANGED <<output_stack, t, open, leaked, label_imp_t, z>>
       \/ TimepointFallback
       \/ TimepointExcept
    /\ TimepointFrame

\* lines 122-129: trackmate.process()
Process ==
    /\ pc = "process"
    /\ \/ /\ pc' = "export"
          /\ UNCHANGED <<output_stack, t, open, leaked, label_imp_t, z>>
       \/ TimepointFallback
       \/ TimepointExcept
    /\ TimepointFrame

\* lines 131-154: spot counts, LabelImgExporter.createLabelImagePlus,
\* frames of the label image turned back into slices
ExportLabel ==
    /\ pc = "export"
    /\ \/ \E f \in LabelFrames(imp.n_slices) :
            /\ label_imp_t' = [frames |-> f]
            /\ open' = open \cup {"label_imp_t"}
            /\ leaked' = (leaked \/ "label_imp_t" \in open)
            /\ z' = 1
            /\ pc' = "append"
            /\ UNCHANGED <<output_stack, t>>
       \/ TimepointFallback
       \/ TimepointExcept
    /\ TimepointFrame

\* lines 157-160: one iteration of the loop over the slices of the label image
AppendSlice ==
    /\ pc = "append"
    /\ z <= label_imp_t.frames
    /\ \/ /\ output_stack' =
                Append(output_stack, LabelSlice(t, z, imp.width, imp.height))
          /\ z' = z + 1
          /\ UNCHANGED <<pc, t, open, leaked, label_imp_t>>
       \/ TimepointExcept
    /\ TimepointFrame

\* lines 162-166: the loop over the slices is over; count the timepoint, close
FinishTimepoint ==
    /\ pc = "append"
    /\ z > label_imp_t.frames
    /\ successful_timepoints' = successful_timepoints + 1
    /\ open' = open \ {"label_imp_t", "imp_t"}
    /\ NextTimepoint
    /\ UNCHANGED <<Params, file_idx, imp, output_stack, label_imp, leaked,
                   saved, attempted, result>>

----------------------------------------------------------------------------
\* Output composition (lines 175-258)

FileFrame ==
    UNCHANGED <<Params, file_idx, imp, output_stack, successful_timepoints, t,
                label_imp_t, z, leaked, attempted>>

\* lines 175-196: empty-stack abort, ImagePlus("Labels", output_stack),
\* HyperStackConverter.toHyperStack(label_imp, 1, n_slices, n_frames), calibration
Reshape ==
    /\ pc = "after_loop"
    /\ IF EmptyStack(output_stack, successful_timepoints)
       THEN /\ open' = open \ {"imp"}
            /\ pc' = "files"
            /\ result' = "empty_abort"
            /\ UNCHANGED label_imp
       ELSE /\ open' = open \cup {"label_imp"}
            /\ IF Len(output_stack) = 1 * imp.n_slices * imp.n_frames
               THEN /\ label_imp' = [channels |-> 1, slices |-> imp.n_slices,
                                     frames |-> imp.n_frames]
                    /\ pc' = "compose"
                    /\ UNCHANGED result
               ELSE /\ pc' = AfterFileException
                    /\ result' = "exception"
                    /\ UNCHANGED label_imp
    /\ UNCHANGED saved
    /\ FileFrame

\* lines 254-258: label_imp.close(), imp.close(), "Completed processing"
CleanUp(images) ==
    /\ open' = (open \cup images) \ (images \cup {"label_imp", "imp"})
    /\ pc' = "files"
    /\ result' = "saved"

\* IJ.save(image, <name_without_ext> + suffix) writes the image under that name
Save(suffix, image) ==
    saved' = saved \cup {[name |-> suffix] @@ image}

\* a host call of the composition raises with these images open: lines 260-263
ComposeRaises(images) ==
    /\ open' = open \cup images
    /\ pc' = AfterFileException
    /\ result' = "exception"
    /\ UNCHANGED saved

\* lines 248-258: append_to_original is false
SaveLabels ==
    /\ pc = "compose"
    /\ ~append_to_original
    /\ \/ /\ Save("_label_3D.tif",
                  [channels |-> <<0>>, slices |-> label_imp.slices,
                   frames |-> label_imp.frames])
          /\ CleanUp({})
       \/ ComposeRaises({})
    /\ UNCHANGED label_imp
    /\ FileFrame

\* lines 203-220, 254-258: append_to_original and n_channels == 1
MergeSingleChannel ==
    /\ pc = "compose"
    /\ append_to_original
    /\ imp.n_channels = 1
    /\ \/ /\ Save("_with_labels.tif",
                  [channels |-> MergeList(1), slices |-> imp.n_slices,
                   frames |-> imp.n_frames])
          /\ CleanUp({"merged_imp"})
       \/ ComposeRaises({})              \* mergeChannels raises
       \/ ComposeRaises({"merged_imp"})  \* IJ.save raises
    /\ UNCHANGED label_imp
    /\ FileFrame

\* lines 226-229: the images in the list "channels" after n iterations
ChannelImages(n) == IF n >= 1 THEN {"channels"} ELSE {}

\* lines 203-206, 221-247, 254-258: append_to_original and n_channels > 1
MergeMultiChannel ==
    /\ pc = "compose"
    /\ append_to_original
    /\ imp.n_channels # 1
    /\ \/ /\ Save("_with_labels.tif",
                  [channels |-> MergeList(imp.n_channels), slices |-> imp.n_slices,
                   frames |-> imp.n_frames])
          /\ CleanUp({"channels", "merged_imp"})
       \/ \E c \in 1..imp.n_channels :
            ComposeRaises(ChannelImages(c - 1))      \* Duplicator raises at channel c
       \/ ComposeRaises({"channels"})                  \* mergeChannels raises
       \/ ComposeRaises({"channels", "merged_imp"})    \* IJ.save raises
    /\ UNCHANGED label_imp
    /\ FileFrame

----------------------------------------------------------------------------
Next ==
    \/ OpenImage
    \/ ValidateChannel
    \/ Duplicate
    \/ SetupTrackMate
    \/ CheckInput
    \/ Process
    \/ ExportLabel
    \/ AppendSlice
    \/ FinishTimepoint
    \/ Reshape
    \/ SaveLabels
    \/ MergeSingleChannel
    \/ MergeMultiChannel
    \/ Finish

Spec == Init /\ [][Next]_vars

\* The script is one sequential thread: it takes its next step whenever it has one.
LiveSpec == Spec /\ WF_vars(Next)

----------------------------------------------------------------------------
\* Vocabulary of the properties

Slices == 1..Len(output_stack)

\* the handling of timepoint tt of the current file is over
Completed(tt) == tt < t \/ pc \notin TimepointPcs

\* timepoint tt fell back: the stack holds a slice "t{tt}_z*_empty" or "t{tt}_z*_error"
Failed(tt) == \E i \in Slices : output_stack[i].t = tt /\ output_stack[i].tag # ""

\* a zero-valued 16-bit slice of the size of the source image
IsBlank(s) == s.blank /\ s.bits = 16 /\ s.width = imp.width /\ s.height = imp.height

FallbackSlicesOf(tt) == {i \in Slices : output_stack[i].t = tt /\ output_stack[i].tag # ""}

\* the handling of the current file is over
FileOver == pc \in {"files", "done"} /\ file_idx >= 1

\* C1: when the timepoint loop finishes, the stack holds exactly
\* n_frames * n_slices slices, whatever the outcomes of the timepoints were.
C1_StackCount ==
    pc = "after_loop" => Len(output_stack) = imp.n_frames * imp.n_slices

\* C2: every slice in the stack that belongs to a failed timepoint is blank
\* (zero-valued, 16-bit) and has the width and height of the source.
C2_FailedSlicesBlank ==
    \A i \in Slices :
        (Completed(output_stack[i].t) /\ Failed(output_stack[i].t))
            => IsBlank(output_stack[i])

\* the step taken by the validation of an out-of-range channel
C3_SkipStep ==
    (pc = "validate" /\ (target_channel < 1 \/ target_channel > imp.n_channels))
        => /\ pc' = "files"
           /\ result' = "channel_skip"
           /\ file_idx' = file_idx
           /\ saved' = saved
           /\ output_stack' = output_stack
           /\ "imp" \notin open'

\* no timepoint handling, no output for a file with an out-of-range channel
C3_Skipped ==
    /\ (pc \in TimepointPcs \cup {"after_loop", "compose"})
          => (target_channel >= 1 /\ target_channel <= imp.n_channels)
    /\ (FileOver /\ imp # NoImage
            /\ (target_channel < 1 \/ target_channel > imp.n_channels))
          => /\ result = "channel_skip"
             /\ output_stack = <<>>
             /\ successful_timepoints = 0
             /\ saved = {}
             /\ (pc = "files" /\ file_idx < n_files) => ENABLED OpenImage
             /\ (pc = "files" /\ file_idx = n_files) => ENABLED Finish

\* C3: a file whose target_channel is < 1 or > n_channels is skipped: no
\* timepoint is processed, no output file is written for it, and the run goes
\* on with the next input file.
C3_ChannelOutOfRangeSkipsFile == []C3_Skipped /\ [][C3_SkipStep]_vars

C3_Witness ==
    /\ pc = "files"
    /\ result = "channel_skip"
    /\ file_idx = 1
    /\ n_files = 2
    /\ target_channel > imp.n_channels

\* The image the composition has to save for the current file: the label
\* hyperstack alone, or the channels of the source in order followed by the label.
ExpectedOutput ==
    IF append_to_original
    THEN [name |-> "_with_labels.tif",
          channels |-> [c \in 1..(imp.n_channels + 1) |->
                           IF c <= imp.n_channels THEN c ELSE 0],
          slices |-> imp.n_slices, frames |-> imp.n_frames]
    ELSE [name |-> "_label_3D.tif", channels |-> <<0>>,
          slices |-> imp.n_slices, frames |-> imp.n_frames]

\* the names of the files written for the current file
WrittenForFile == {w.name : w \in saved}

ReachedComposition == FileOver /\ label_imp # NoLabel

\* C4 as stated: every file that reaches output composition has exactly one
\* file written, the one that append_to_original and n_channels determine.
C4_ExactlyOneFileWritten ==
    ReachedComposition
        => /\ saved = {ExpectedOutput}
           /\ WrittenForFile = {ExpectedOutput.name}

\* C4 amended: a file that reaches output composition has the one file that
\* append_to_original and n_channels determine saved when no call of the
\* composition raises, and no save completed when one raises.
C4_OutputDeterminedByBranch ==
    ReachedComposition
        => /\ result \in {"saved", "exception"}
           /\ result = "saved"
                => /\ saved = {ExpectedOutput}
                   /\ WrittenForFile = {ExpectedOutput.name}
           /\ result = "exception"
                => /\ saved = {}
                   /\ WrittenForFile = {}

C4_Witness ==
    /\ ReachedComposition
    /\ result = "saved"
    /\ append_to_original
    /\ imp.n_channels = 2
    /\ imp.n_slices = 2
    /\ imp.n_frames = 2

\* every timepoint of the current file fell back and nothing else was appended
AllTimepointsFailed ==
    /\ FileOver
    /\ imp # NoImage
    /\ result \in {"saved", "exception", "empty_abort"}
    /\ \A i \in Slices : output_stack[i].tag = "_empty"

\* C5 as stated: when every timepoint fails, the stack holds
\* n_frames * n_slices blank slices, is reshaped and the output file is written.
C5_AllFailedStillWritten ==
    AllTimepointsFailed
        => /\ Len(output_stack) = imp.n_frames * imp.n_slices
           /\ \A i \in Slices : IsBlank(output_stack[i])
           /\ label_imp = [channels |-> 1, slices |-> imp.n_slices,
                           frames |-> imp.n_frames]
           /\ WrittenForFile = {ExpectedOutput.name}

\* C5 amended: when every timepoint fails, the stack holds n_frames * n_slices
\* blank slices and is reshaped into an (n_slices, n_frames) hyperstack; the
\* file is written unless a call of the composition raises; the empty-stack
\* abort is never taken.
C5_AllFailedReshapedAndSaved ==
    /\ result # "empty_abort"
    /\ pc = "after_loop" => Len(output_stack) > 0
    /\ AllTimepointsFailed
        => /\ Len(output_stack) = imp.n_frames * imp.n_slices
           /\ \A i \in Slices : IsBlank(output_stack[i])
           /\ label_imp = [channels |-> 1, slices |-> imp.n_slices,
                           frames |-> imp.n_frames]
           /\ result = "saved"
                => /\ WrittenForFile = {ExpectedOutput.name}
                   /\ saved = {ExpectedOutput}
           /\ result # "saved" => WrittenForFile = {}

C5_Witness ==
    /\ AllTimepointsFailed
    /\ result = "saved"
    /\ successful_timepoints = 0
    /\ imp.n_frames = 2
    /\ imp.n_slices = 2
    /\ Len(output_stack) = 4

\* the files started so far are 1..file_idx, in order
C6_Order ==
    /\ file_idx <= n_files
    /\ attempted = [i \in 1..file_idx |-> i]
    /\ pc = "done" => file_idx = n_files

\* a file that fails to open or raises goes back to the file loop
C6_FailureStep ==
    (result' \in {"open_failed", "exception"} /\ (result' # result \/ file_idx' # file_idx))
        => /\ pc' = "files"
           /\ attempted' = [i \in 1..file_idx' |-> i]

\* C6: every input file is attempted exactly once in list order, a file that
\* fails to open or raises a whole-file exception does not stop the later
\* files, and the run reaches "ALL FILES PROCESSED".
C6_NoFileIsFatal ==
    /\ []C6_Order
    /\ [][C6_FailureStep]_vars
    /\ <>(pc = "done" /\ Len(attempted) = n_files)

C6_Witness ==
    /\ pc = "done"
    /\ n_files = 2
    /\ attempted = <<1, 2>>
    /\ leaked
    /\ result = "open_failed"

\* C7: when the handling of a file is over, the source image and every
\* intermediate image opened for it have been closed.
C7_AllImagesClosed ==
    pc = "files" => (open = {} /\ ~leaked)

\* C8: the sub-volume of a timepoint and its label sub-volume are closed before
\* the next timepoint begins, whatever the outcome of the timepoint.
C8_TimepointImagesClosed ==
    pc \in {"dup", "after_loop"} => ("imp_t" \notin open /\ "label_imp_t" \notin open)

\* a step that appends fallback slices
C9_FallbackStep ==
    (Len(output_stack') > Len(output_stack)
        /\ output_stack'[Len(output_stack')].tag # "")
        => /\ Len(output_stack') = Len(output_stack) + imp.n_slices
           /\ \A i \in Slices : output_stack'[i] = output_stack[i]
           /\ \A k \in 1..imp.n_slices :
                LET s == output_stack'[Len(output_stack) + k]
                IN  /\ s.t = t
                    /\ s.z = k
                    /\ s.tag \in {"_empty", "_error"}
                    /\ s.blank /\ s.bits = 16
                    /\ s.width = imp.width /\ s.height = imp.height
           /\ result' = result
           /\ file_idx' = file_idx
           /\ IF t < imp.n_frames
              THEN t' = t + 1 /\ pc' = "dup"
              ELSE pc' = "after_loop"

\* a failed timepoint holds the slices of one fallback
C9_OncePerTimepoint ==
    \A tt \in 1..imp.n_frames :
        (Completed(tt) /\ Failed(tt))
            => /\ Cardinality(FallbackSlicesOf(tt)) = imp.n_slices
               /\ \A i, j \in FallbackSlicesOf(tt) :
                    output_stack[i].tag = output_stack[j].tag

\* C9: a fallback for timepoint t appends exactly n_slices blank slices, runs
\* at most once for t, is not propagated to the file level, and the script
\* goes on with timepoint t + 1, or with the composition when t = n_frames.
C9_FallbackAppendsNSlicesOnce == []C9_OncePerTimepoint /\ [][C9_FallbackStep]_vars

C9_Witness ==
    /\ pc = "dup"
    /\ t = 2
    /\ imp.n_slices = 2
    /\ Len(output_stack) = 3
    /\ output_stack[1].tag = ""
    /\ output_stack[3].tag = "_error"

\* C10: at the moment of reshaping, the slice of (timepoint tt, z-slice zz) is
\* at position (tt - 1) * n_slices + zz, whatever timepoints failed.
C10_SlicePositions ==
    pc = "after_loop"
        => \A tt \in 1..imp.n_frames : \A zz \in 1..imp.n_slices :
             LET i == (tt - 1) * imp.n_slices + zz
             IN  /\ i <= Len(output_stack)
                 /\ output_stack[i].t = tt
                 /\ output_stack[i].z = zz

====
